---------------------------- MODULE Spec2Model ----------------------------
(* ByteStream of rusty-foam: a bounded FIFO byte buffer over a fixed      *)
(* backing Vec<u8>, addressed circularly by head_index and used_capacity.  *)
(* Rust slices s[a..b] are 0-based and half-open; sequences here are      *)
(* 1-based, so s[a..b] is SubSeq(s, a + 1, b).                            *)
EXTENDS Integers, Sequences, FiniteSets, TLC

VARIABLES capacity, head_index, used_capacity, buffer,
          op, arg, out, result, old, prev, written, readOut,
          new_capacity, drain, bench

vars == <<capacity, head_index, used_capacity, buffer,
          op, arg, out, result, old, prev, written, readOut,
          new_capacity, drain, bench>>

(* ----------------------------- bounds --------------------------------- *)
MaxCap == 3
MaxLen == 4
MaxTotal == 5

MaxBenchCap == 4
MaxCycles == 3
MaxPerCycle == 2

Byte == 1..2
SinkFill == {0, 9}

RECURSIVE SeqsUpTo(_, _)
SeqsUpTo(S, n) ==
    IF n = 0 THEN {<<>>}
    ELSE LET shorter == SeqsUpTo(S, n - 1)
         IN  shorter \cup {Append(s, b) : s \in {t \in shorter : Len(t) = n - 1}, b \in S}

Data == SeqsUpTo(Byte, MaxLen)
Sinks == {[i \in 1..n |-> f] : n \in 0..MaxLen, f \in SinkFill}

(* ----------------------------- helpers -------------------------------- *)
Min(a, b) == IF a <= b THEN a ELSE b

Slice(s, a, b) == SubSeq(s, a + 1, b)

InRange(s, a, b) == 0 <= a /\ a <= b /\ b <= Len(s)

CopyInto(dst, at, src) ==
    [i \in 1..Len(dst) |->
        IF at < i /\ i <= at + Len(src) THEN src[i - at] ELSE dst[i]]

Ok(self, sink, n) == [self |-> self, sink |-> sink, result |-> [kind |-> "Ok", n |-> n]]
Panic(self, sink) == [self |-> self, sink |-> sink, result |-> [kind |-> "Panic", n |-> 0]]
ArithOverflow(self, sink) == [self |-> self, sink |-> sink, result |-> [kind |-> "ArithOverflow", n |-> 0]]

(* --------------------------- ByteStream ------------------------------- *)
new(cap) ==
    [capacity |-> cap, head_index |-> 0, used_capacity |-> 0,
     buffer |-> [i \in 1..cap |-> 0]]

get_capacity_left(self) == self.capacity - self.used_capacity

get_capacity(self) == self.capacity

read_size_unclamped(self, buf) == Len(buf)

read_size(self, buf) == Min(Len(buf), self.used_capacity)

read_size_lo_unclamped(self, buf) == self.capacity - self.head_index

read_size_lo(self, buf) == Min(read_size(self, buf), self.capacity - self.head_index)

advance_no_wrap(self, n) == self.head_index + n

advance_stuck(self, n) == self.head_index

advance(self, n) == (self.head_index + n) % self.capacity

read(self, buf) ==
    IF self.capacity - self.head_index < 0 THEN ArithOverflow(self, buf)
    ELSE
    LET lo == read_size_lo(self, buf)
        hi == read_size(self, buf) - lo
        src_lo == Slice(self.buffer, self.head_index, self.head_index + lo)
        src_hi == Slice(self.buffer, 0, hi)
    IN
    IF lo > 0 /\ ~(InRange(buf, 0, lo) /\ InRange(self.buffer, self.head_index, self.head_index + lo))
    THEN Panic(self, buf)
    ELSE
    LET buf_lo == IF lo > 0 THEN CopyInto(buf, 0, src_lo) ELSE buf
    IN
    IF hi > 0 /\ ~(InRange(buf, lo, read_size(self, buf)) /\ InRange(self.buffer, 0, hi))
    THEN Panic(self, buf_lo)
    ELSE
    LET buf_hi == IF hi > 0 THEN CopyInto(buf_lo, lo, src_hi) ELSE buf_lo
        used == self.used_capacity - read_size(self, buf)
    IN
    IF used < 0 THEN ArithOverflow(self, buf_hi)
    ELSE IF self.capacity = 0
         THEN Panic([self EXCEPT !.used_capacity = used], buf_hi)
         ELSE Ok([self EXCEPT !.used_capacity = used,
                              !.head_index = advance(self, read_size(self, buf))],
                 buf_hi, read_size(self, buf))

capacity_left(self) == self.capacity - self.used_capacity

write_size_unclamped(self, buf) == Len(buf)

write_size(self, buf) == Min(Len(buf), capacity_left(self))

tail_index_ignores_used(self) == self.head_index % self.capacity

tail_index_off_by_one(self) == (self.head_index + self.used_capacity + 1) % self.capacity

tail_index(self) == (self.head_index + self.used_capacity) % self.capacity

write_size_lo_no_split(self, buf) == write_size(self, buf)

write_size_lo(self, buf) == Min(write_size(self, buf), self.capacity - tail_index(self))

write(self, buf) ==
    IF capacity_left(self) < 0 THEN ArithOverflow(self, <<>>)
    ELSE IF self.capacity = 0 THEN Panic(self, <<>>)
    ELSE IF self.capacity - tail_index(self) < 0 THEN ArithOverflow(self, <<>>)
    ELSE
    LET lo == write_size_lo(self, buf)
        hi == write_size(self, buf) - lo
        src_hi == Slice(buf, lo, Len(buf))
    IN
    IF lo > 0 /\ ~(InRange(self.buffer, tail_index(self), tail_index(self) + lo) /\ InRange(buf, 0, lo))
    THEN Panic(self, <<>>)
    ELSE
    LET buffer_lo == IF lo > 0
                     THEN CopyInto(self.buffer, tail_index(self), Slice(buf, 0, lo))
                     ELSE self.buffer
    IN
    IF hi > 0 /\ ~(InRange(self.buffer, 0, hi) /\ InRange(buf, lo, Len(buf)) /\ Len(src_hi) = hi)
    THEN Panic([self EXCEPT !.buffer = buffer_lo], <<>>)
    ELSE LET buffer_hi == IF hi > 0 THEN CopyInto(buffer_lo, 0, src_hi) ELSE buffer_lo
         IN  Ok([self EXCEPT !.buffer = buffer_hi,
                             !.used_capacity = self.used_capacity + write_size(self, buf)],
                <<>>, write_size(self, buf))

(* ------------------------------ state --------------------------------- *)
Self ==
    [capacity |-> capacity, head_index |-> head_index,
     used_capacity |-> used_capacity, buffer |-> buffer]

Running == result.kind = "Ok"

(* A caller that is not draining, and no benchmark harness. *)
NoDrain == [on |-> FALSE, start |-> 0, sum |-> 0, zero |-> FALSE, after |-> FALSE]
NoBench == [pc |-> "off"]

Construct(cap) ==
    /\ capacity = new(cap).capacity
    /\ head_index = new(cap).head_index
    /\ used_capacity = new(cap).used_capacity
    /\ buffer = new(cap).buffer
    /\ op = "new"
    /\ arg = <<>>
    /\ out = <<>>
    /\ result = [kind |-> "Ok", n |-> 0]
    /\ old = new(cap)
    /\ prev = "none"
    /\ written = <<>>
    /\ readOut = <<>>
    /\ new_capacity = cap

Init ==
    \E cap \in 0..MaxCap :
        /\ Construct(cap)
        /\ drain = NoDrain
        /\ bench = NoBench

Apply(name, input, r) ==
    /\ capacity' = r.self.capacity
    /\ head_index' = r.self.head_index
    /\ used_capacity' = r.self.used_capacity
    /\ buffer' = r.self.buffer
    /\ op' = name
    /\ arg' = input
    /\ out' = r.sink
    /\ result' = r.result
    /\ old' = Self
    /\ prev' = op
    /\ new_capacity' = new_capacity

Write ==
    /\ Running /\ ~drain.on
    /\ UNCHANGED <<drain, bench>>
    /\ \E data \in Data :
        LET r == write(Self, data)
        IN  /\ Len(written) + r.result.n <= MaxTotal
            /\ Apply("write", data, r)
            /\ written' = written \o SubSeq(data, 1, r.result.n)
            /\ readOut' = readOut

Read ==
    /\ Running /\ ~drain.on
    /\ UNCHANGED <<drain, bench>>
    /\ \E sink \in Sinks :
        LET r == read(Self, sink)
        IN  /\ Apply("read", sink, r)
            /\ readOut' = readOut \o SubSeq(r.sink, 1, r.result.n)
            /\ written' = written

Capacity ==
    /\ Running /\ ~drain.on
    /\ op' = "capacity"
    /\ arg' = <<>>
    /\ out' = <<>>
    /\ result' = [kind |-> "Ok", n |-> get_capacity(Self)]
    /\ old' = Self
    /\ prev' = op
    /\ UNCHANGED <<capacity, head_index, used_capacity, buffer,
                   written, readOut, new_capacity, drain, bench>>

Next == Write \/ Read \/ Capacity

Spec == Init /\ [][Next]_vars

(* ------------------------- read-until-zero loop ----------------------- *)
(* From some reachable state of a buffer with capacity > 0 the caller     *)
(* stops writing and only reads, with sinks of non-zero length, as        *)
(* Read::read_to_string does. `drain` records the used count at that      *)
(* moment, the counts returned before the first read that returns 0,      *)
(* whether that read has happened, and whether a read after it returned   *)
(* more than 0. The logs of the operations before are dropped.            *)
StartDrain ==
    /\ Running /\ ~drain.on /\ capacity > 0
    /\ drain' = [on |-> TRUE, start |-> used_capacity, sum |-> 0,
                 zero |-> FALSE, after |-> FALSE]
    /\ op' = "drain"
    /\ arg' = <<>>
    /\ out' = <<>>
    /\ result' = [kind |-> "Ok", n |-> 0]
    /\ old' = Self
    /\ prev' = "none"
    /\ written' = <<>>
    /\ readOut' = <<>>
    /\ UNCHANGED <<capacity, head_index, used_capacity, buffer, new_capacity, bench>>

DrainRead ==
    /\ Running /\ drain.on
    /\ bench' = bench
    /\ \E sink \in Sinks :
        /\ Len(sink) > 0
        /\ LET r == read(Self, sink)
           IN  /\ Apply("read", sink, r)
               /\ readOut' = readOut \o SubSeq(r.sink, 1, r.result.n)
               /\ written' = written
               /\ drain' = [drain EXCEPT
                      !.sum = IF drain.zero THEN @ ELSE @ + r.result.n,
                      !.zero = @ \/ (r.result.kind = "Ok" /\ r.result.n = 0),
                      !.after = @ \/ (drain.zero /\ r.result # [kind |-> "Ok", n |-> 0])]

NextDrain == Next \/ StartDrain \/ DrainRead

SpecDrain == Init /\ [][NextDrain]_vars /\ WF_vars(DrainRead)

(* ------------------------- benchmark harness -------------------------- *)
(* Write::write_all and Read::read_exact are the provided methods of the  *)
(* standard traits, which ByteStream does not override: they call write   *)
(* or read until the slice is used up, and fail with an error when a call *)
(* returns Ok(0) first. `n` counts the calls they made.                   *)
RECURSIVE write_all(_, _)
write_all(self, buf) ==
    IF Len(buf) = 0
    THEN [self |-> self, sink |-> <<>>, result |-> [kind |-> "Ok", n |-> 0]]
    ELSE LET w == write(self, buf)
         IN  IF w.result.kind # "Ok"
             THEN [self |-> w.self, sink |-> <<>>, result |-> [kind |-> w.result.kind, n |-> 1]]
             ELSE IF w.result.n = 0
             THEN [self |-> w.self, sink |-> <<>>, result |-> [kind |-> "Err", n |-> 1]]
             ELSE LET rest == write_all(w.self, Slice(buf, w.result.n, Len(buf)))
                  IN  [rest EXCEPT !.result.n = @ + 1]

RECURSIVE read_exact(_, _)
read_exact(self, buf) ==
    IF Len(buf) = 0
    THEN [self |-> self, sink |-> buf, result |-> [kind |-> "Ok", n |-> 0]]
    ELSE LET r == read(self, buf)
         IN  IF r.result.kind # "Ok"
             THEN [self |-> r.self, sink |-> r.sink, result |-> [kind |-> r.result.kind, n |-> 1]]
             ELSE IF r.result.n = 0
             THEN [self |-> r.self, sink |-> r.sink, result |-> [kind |-> "Err", n |-> 1]]
             ELSE LET rest == read_exact(r.self, Slice(r.sink, r.result.n, Len(r.sink)))
                  IN  [self |-> rest.self,
                       sink |-> SubSeq(r.sink, 1, r.result.n) \o rest.sink,
                       result |-> [kind |-> rest.result.kind, n |-> rest.result.n + 1]]

(* (b'A'..=b'Z').chain(b'a'..=b'z').chain(b'0'..=b'9') *)
Alphabet ==
    [i \in 1..62 |-> IF i <= 26 THEN 64 + i
                     ELSE IF i <= 52 THEN 96 + (i - 26)
                     ELSE 47 + (i - 52)]

CycleTake(s, n) ==
    IF Len(s) = 0 THEN <<>>
    ELSE [i \in 1..n |-> s[((i - 1) % Len(s)) + 1]]

corpus(b) == CycleTake(Alphabet, b.write_size * b.writes_per_cycle * b.cycles)

read_buffer_len(b) == b.read_size * b.reads_per_cycle * b.cycles

expected_data(b) == CycleTake(corpus(b), read_buffer_len(b))

write_start(b) == (b.cycle * b.writes_per_cycle + b.k) * b.write_size

read_start_ignores_cycle(b) == b.k * b.read_size

read_start(b) == (b.cycle * b.reads_per_cycle + b.k) * b.read_size

(* Position of the loops: the next call to make, or the consistency check *)
(* after the last cycle. `in_cycle` counts the calls made in the current  *)
(* cycle.                                                                 *)
RECURSIVE Settle(_)
Settle(b) ==
    IF b.cycle >= b.cycles THEN [b EXCEPT !.pc = "check"]
    ELSE IF b.pc = "write" /\ b.k >= b.writes_per_cycle
         THEN Settle([b EXCEPT !.pc = "read", !.k = 0])
    ELSE IF b.pc = "read" /\ b.k >= b.reads_per_cycle
         THEN Settle([b EXCEPT !.pc = "write", !.k = 0, !.cycle = @ + 1, !.in_cycle = 0])
    ELSE b

Fail(b, kind) == [b EXCEPT !.pc = "done", !.outcome = IF kind = "Err" THEN "IoError" ELSE kind]

BenchInit ==
    \E cap \in 0..MaxBenchCap, cycles \in 0..MaxCycles,
       ws \in 0..MaxLen, wpc \in 0..MaxPerCycle,
       rs \in 0..MaxLen, rpc \in 0..MaxPerCycle :
        /\ Construct(cap)
        /\ drain = NoDrain
        /\ bench = Settle([pc |-> "write", cycles |-> cycles,
                           write_size |-> ws, writes_per_cycle |-> wpc,
                           read_size |-> rs, reads_per_cycle |-> rpc,
                           cycle |-> 0, k |-> 0, in_cycle |-> 0,
                           read_buffer |-> [i \in 1..(rs * rpc * cycles) |-> 0],
                           outcome |-> "running"])

BenchWrite ==
    /\ bench.pc = "write"
    /\ LET start == write_start(bench)
           end == start + bench.write_size
       IN  IF ~InRange(corpus(bench), start, end)
           THEN /\ bench' = Fail(bench, "Panic")
                /\ UNCHANGED <<capacity, head_index, used_capacity, buffer, op, arg, out,
                               result, old, prev, new_capacity>>
           ELSE LET data == Slice(corpus(bench), start, end)
                    r == write_all(Self, data)
                IN  /\ Apply("write_all", data, r)
                    /\ bench' = IF r.result.kind = "Ok"
                                THEN Settle([bench EXCEPT !.k = @ + 1, !.in_cycle = @ + 1])
                                ELSE Fail(bench, r.result.kind)
    /\ UNCHANGED <<written, readOut, drain>>

BenchRead ==
    /\ bench.pc = "read"
    /\ LET start == read_start(bench)
           end == start + bench.read_size
       IN  IF ~InRange(bench.read_buffer, start, end)
           THEN /\ bench' = Fail(bench, "Panic")
                /\ UNCHANGED <<capacity, head_index, used_capacity, buffer, op, arg, out,
                               result, old, prev, new_capacity>>
           ELSE LET sink == Slice(bench.read_buffer, start, end)
                    r == read_exact(Self, sink)
                    filled == CopyInto(bench.read_buffer, start, r.sink)
                IN  /\ Apply("read_exact", sink, r)
                    /\ bench' = IF r.result.kind = "Ok"
                                THEN Settle([bench EXCEPT !.k = @ + 1, !.in_cycle = @ + 1,
                                                          !.read_buffer = filled])
                                ELSE Fail([bench EXCEPT !.read_buffer = filled], r.result.kind)
    /\ UNCHANGED <<written, readOut, drain>>

BenchCheck ==
    /\ bench.pc = "check"
    /\ bench' = [bench EXCEPT !.pc = "done",
                              !.outcome = IF bench.read_buffer # expected_data(bench)
                                          THEN "Inconsistent" ELSE "Ok"]
    /\ UNCHANGED <<capacity, head_index, used_capacity, buffer, op, arg, out, result,
                   old, prev, written, readOut, new_capacity, drain>>

NextBench == BenchWrite \/ BenchRead \/ BenchCheck

SpecBench == BenchInit /\ [][NextBench]_vars

(* Occupied region of a buffer, oldest byte first (circular slice of      *)
(* `used_capacity` bytes starting at head_index).                        *)
Contents(self) ==
    [i \in 1..self.used_capacity |->
        self.buffer[((self.head_index + i - 1) % self.capacity) + 1]]

Free(self) == self.capacity - self.used_capacity

(* ------------------------------ claims -------------------------------- *)

(* C1: FIFO order. Whenever the reads have consumed exactly the bytes the *)
(* writes accepted, the concatenation of the read outputs (first          *)
(* bytes_read bytes of each sink) equals the concatenation of the write   *)
(* inputs (first bytes_written bytes of each write).                      *)
C1_FifoOrder == (Len(readOut) = Len(written)) => (readOut = written)

(* A wrapping read, following another read, drains a buffer that has      *)
(* accepted more bytes than its capacity.                                 *)
C1_Witness ==
    /\ op = "read" /\ prev = "read" /\ result.kind = "Ok" /\ result.n > 0
    /\ old.head_index + result.n > capacity
    /\ Len(written) > capacity
    /\ Len(readOut) = Len(written)
    /\ readOut = written

(* C2: capacity conservation. 0 <= used_capacity <= capacity in every     *)
(* reachable state, and no unsigned subtraction of read/write underflows. *)
C2_CapacityConservation ==
    /\ 0 <= used_capacity
    /\ used_capacity <= capacity
    /\ result.kind # "ArithOverflow"

(* A write longer than the free space has filled the buffer. *)
C2_Witness ==
    /\ op = "write" /\ result.kind = "Ok" /\ capacity > 0
    /\ Len(arg) > result.n /\ result.n > 0
    /\ used_capacity = capacity

OkN(n) == [kind |-> "Ok", n |-> n]

(* C3: truncation on overflow. A write of n bytes into f < n free bytes   *)
(* returns f and appends exactly the first f input bytes to the buffered  *)
(* bytes, wherever the tail index lies. Stated here for capacity > 0, the *)
(* case that does not depend on the zero-capacity remainder of C5.        *)
C3_TruncationOnOverflow ==
    (op = "write" /\ capacity > 0 /\ Free(old) < Len(arg)) =>
        /\ result = OkN(Free(old))
        /\ Contents(Self) = Contents(old) \o SubSeq(arg, 1, Free(old))

(* C4: every operation is total: write and read always return Ok(n). *)
C4_Total == result.kind = "Ok"

(* C5: on a buffer of capacity 0 every write returns Ok(0) and every read *)
(* returns Ok(0).                                                         *)
C5_ZeroCapacity ==
    (capacity = 0 /\ op \in {"write", "read"}) => result = OkN(0)

(* C6: truncation on underflow. A read into a sink of length n from a     *)
(* buffer holding u < n bytes returns u, puts the u oldest bytes in order *)
(* in the first u sink positions and leaves the buffer empty.             *)
C6_TruncationOnUnderflow ==
    (op = "read" /\ old.used_capacity < Len(arg)) =>
        /\ result = OkN(old.used_capacity)
        /\ SubSeq(out, 1, old.used_capacity) = Contents(old)
        /\ used_capacity = 0

(* C7: round trip. In every reachable state, writing data that fits in    *)
(* the free space and then reading everything buffered returns the        *)
(* previously buffered bytes followed by exactly that data.               *)
C7_RoundTrip ==
    Running =>
        \A data \in Data :
            Len(data) <= Free(Self) =>
                LET w == write(Self, data)
                    r == read(w.self, [i \in 1..capacity |-> 0])
                IN  /\ w.result = OkN(Len(data))
                    /\ r.result = OkN(used_capacity + Len(data))
                    /\ SubSeq(r.sink, 1, r.result.n) = Contents(Self) \o data

(* C8: write postcondition. Every write returns min(length(data),         *)
(* capacity - used), increases used by that count and leaves head alone.  *)
C8_WritePostcondition ==
    op = "write" =>
        /\ result = OkN(Min(Len(arg), Free(old)))
        /\ used_capacity = old.used_capacity + result.n
        /\ head_index = old.head_index

(* C9: read postcondition. Every read returns min(sink length, used),     *)
(* decreases used by that count and sets head to                          *)
(* (head + bytes_read) mod capacity.                                      *)
C9_ReadPostcondition ==
    op = "read" =>
        /\ result = OkN(Min(Len(arg), old.used_capacity))
        /\ used_capacity = old.used_capacity - result.n
        /\ head_index = (old.head_index + result.n) % capacity

(* C10: zero-transfer operations are no-ops. A zero-length write or read, *)
(* a write on a full buffer and a read on an empty buffer each return     *)
(* Ok(0) and leave head, used and the stored bytes unchanged.             *)
C10_ZeroTransferNoOp ==
    (\/ op \in {"write", "read"} /\ Len(arg) = 0
     \/ op = "write" /\ Free(old) = 0
     \/ op = "read" /\ old.used_capacity = 0) =>
        /\ result = OkN(0)
        /\ Self = old

(* C11: head bound. On every buffer with capacity > 0, in every reachable *)
(* state, 0 <= head_index < capacity.                                     *)
C11_HeadBound == capacity > 0 => (0 <= head_index /\ head_index < capacity)

(* A read has carried head_index past the end of the storage and back to  *)
(* a lower index.                                                         *)
C11_Witness ==
    /\ op = "read" /\ result.kind = "Ok" /\ result.n > 0 /\ capacity > 0
    /\ old.head_index + result.n >= capacity
    /\ head_index < old.head_index

(* C12: idempotent capacity query. The capacity field equals the value    *)
(* passed to new in every reachable state, capacity() returns that value, *)
(* and the query changes no field of the buffer.                          *)
C12_CapacityQuery ==
    /\ capacity = new_capacity
    /\ op = "capacity" => (result = OkN(new_capacity) /\ Self = old)

(* capacity() is asked of a full buffer whose head has moved. *)
C12_Witness ==
    /\ op = "capacity" /\ result.n = new_capacity /\ new_capacity > 1
    /\ used_capacity = capacity /\ head_index > 0

(* C14: a read never moves the write-side boundary. For capacity > 0 the  *)
(* tail index (head + used) mod capacity is the same after every read as  *)
(* before it.                                                             *)
C14_ReadKeepsTail ==
    (op = "read" /\ capacity > 0) =>
        (head_index + used_capacity) % capacity
            = (old.head_index + old.used_capacity) % old.capacity

(* A read that wraps head has left bytes buffered; the tail stays put. *)
C14_Witness ==
    /\ op = "read" /\ result.kind = "Ok" /\ result.n > 0 /\ capacity > 0
    /\ head_index < old.head_index
    /\ used_capacity > 0
    /\ (head_index + used_capacity) % capacity
            = (old.head_index + old.used_capacity) % capacity

(* Storage cell i (0-based) is one of the n cells starting at index `at`, *)
(* wrapping modulo the capacity.                                          *)
InWindow(self, at, n, i) ==
    \E k \in 0..(n - 1) : i = (at + k) % self.capacity

(* C15: a write never overwrites unread data. Every write that returns a  *)
(* count changes only the bytes_written storage cells of the free region  *)
(* starting at the tail index (wrapping modulo capacity), so every cell   *)
(* of the occupied region and every free cell beyond the bytes written    *)
(* keeps its value; a write that panics returns no count, and it too      *)
(* leaves every cell of the occupied region as it was.                    *)
C15_WriteFrame ==
    (op = "write" /\ capacity > 0) =>
        \A i \in 0..(capacity - 1) :
            /\ InWindow(old, old.head_index, old.used_capacity, i)
                    => buffer[i + 1] = old.buffer[i + 1]
            /\ (result.kind = "Ok" /\
                    ~InWindow(old, (old.head_index + old.used_capacity) % old.capacity,
                              result.n, i))
                    => buffer[i + 1] = old.buffer[i + 1]

(* A write spanning the end of the storage was added behind unread bytes. *)
C15_Witness ==
    /\ op = "write" /\ result.kind = "Ok" /\ result.n > 1
    /\ old.used_capacity > 0
    /\ ((old.head_index + old.used_capacity) % capacity) + result.n > capacity
    /\ buffer # old.buffer

(* C16: a read writes only the first bytes_read positions of the caller's *)
(* sink; the sink positions from bytes_read to the end and the buffer's   *)
(* backing storage are unchanged.                                         *)
C16_ReadFrame ==
    op = "read" =>
        /\ Len(out) = Len(arg)
        /\ \A i \in (result.n + 1)..Len(arg) : out[i] = arg[i]
        /\ buffer = old.buffer

(* A short read from a wrapped region filled the start of a longer sink   *)
(* and left its last position as the caller had it.                       *)
C16_Witness ==
    /\ op = "read" /\ result.kind = "Ok" /\ result.n > 1
    /\ result.n < Len(arg)
    /\ old.head_index + result.n > capacity
    /\ arg[Len(arg)] = 9 /\ out[Len(arg)] = 9
    /\ out[1] # 9

(* C17: draining terminates. From any reachable state of a buffer with    *)
(* capacity > 0, repeated reads with sinks of non-zero length and no      *)
(* intervening write reach a read that returns 0; the counts returned     *)
(* before it sum to the used count at the start, the bytes they delivered *)
(* are the bytes that were buffered, and every later read returns 0.      *)
C17_DrainTerminates ==
    /\ [](drain.zero => (drain.sum = drain.start /\ Len(readOut) = drain.start
                          /\ used_capacity = 0 /\ ~drain.after))
    /\ (drain.on ~> drain.zero)

(* A drain that started on a full buffer has delivered all its bytes, a   *)
(* read has returned 0, and a further read on the empty buffer returned 0 *)
(* again.                                                                 *)
C17_Witness ==
    /\ drain.on /\ drain.zero /\ drain.start = capacity /\ capacity > 2
    /\ op = "read" /\ prev = "read" /\ result = OkN(0)
    /\ old.used_capacity = 0
    /\ drain.sum = drain.start

(* C13: harness short-transfer policy. Whenever a full write of           *)
(* write_size bytes does not fit in the free space, or a full read of     *)
(* read_size bytes finds fewer bytes buffered, benchmark_byte_stream      *)
(* stops and returns an I/O error. Stated here for capacity > 0, the case *)
(* that does not depend on the zero-capacity remainder of C5.             *)
ShortTransfer ==
    \/ op = "write_all" /\ Len(arg) > Free(old)
    \/ op = "read_exact" /\ Len(arg) > old.used_capacity

C13_ShortTransferIsError ==
    (capacity > 0 /\ ShortTransfer) =>
        (bench.pc = "done" /\ bench.outcome = "IoError")

(* What holds instead: a short transfer always stops the harness, with an *)
(* I/O error unless the write or read panicked.                           *)
ShortTransferStopsHarness ==
    ShortTransfer =>
        /\ bench.pc = "done"
        /\ bench.outcome \in {"IoError", "Panic"}
        /\ bench.outcome = "Panic" => result.kind = "Panic"

(* C18: the harness consistency error is unreachable. When every          *)
(* write_all and read_exact of every cycle has succeeded, read_buffer is  *)
(* the first read_size * reads_per_cycle * cycles bytes of the corpus and *)
(* the function returns Ok, never the inconsistency error.                *)
C18_ConsistencyHolds ==
    (bench.pc = "check" \/ (bench.pc = "done" /\ bench.outcome \notin {"IoError", "Panic"})) =>
        /\ read_buffer_len(bench) <= Len(corpus(bench))
        /\ bench.read_buffer = SubSeq(corpus(bench), 1, read_buffer_len(bench))
        /\ bench.pc = "done" => bench.outcome = "Ok"

(* A run of several cycles, reading in other chunks than it wrote and     *)
(* moving more bytes than the capacity, has returned Ok.                  *)
C18_Witness ==
    /\ bench.pc = "done" /\ bench.outcome = "Ok"
    /\ bench.cycles > 1
    /\ bench.write_size # bench.read_size
    /\ read_buffer_len(bench) > capacity
    /\ bench.read_buffer = expected_data(bench)

PerCycle(b) == b.write_size * b.writes_per_cycle

Balanced(b) ==
    /\ capacity >= 1
    /\ b.write_size * b.writes_per_cycle = b.read_size * b.reads_per_cycle
    /\ b.write_size * b.writes_per_cycle <= capacity

(* C19: a balanced workload always succeeds. For capacity >= 1, if        *)
(* write_size * writes_per_cycle = read_size * reads_per_cycle <=         *)
(* capacity, no call fails, every full write and full read of a non-zero  *)
(* size is satisfied by a single call, and at the end of each cycle the   *)
(* buffer is empty and head_index has advanced by the per-cycle byte      *)
(* count modulo capacity.                                                 *)
C19_BalancedWorkload ==
    Balanced(bench) =>
        /\ bench.outcome \in {"running", "Ok"}
        /\ (op \in {"write_all", "read_exact"} /\ Len(arg) > 0) => result = OkN(1)
        /\ bench.in_cycle = 0 =>
            /\ used_capacity = 0
            /\ head_index = (bench.cycle * PerCycle(bench)) % capacity

(* A balanced run whose per-cycle byte count does not divide the capacity *)
(* has finished its cycles with head_index wrapped to a non-zero index.   *)
C19_Witness ==
    /\ Balanced(bench) /\ bench.pc = "done" /\ bench.outcome = "Ok"
    /\ bench.cycles > 1 /\ bench.cycle = bench.cycles
    /\ PerCycle(bench) > 1
    /\ bench.cycles * PerCycle(bench) > capacity
    /\ head_index # 0
    /\ used_capacity = 0

(* ------------------- behaviour on positive capacity ------------------- *)
(* The statements above that fail on a zero-capacity buffer, restricted   *)
(* to capacity > 0 (and, for write, to writes that do not both truncate   *)
(* and wrap). These hold in every reachable state.                        *)
PositiveCapacityBehaviour ==
    capacity > 0 =>
        /\ C6_TruncationOnUnderflow
        /\ C7_RoundTrip
        /\ C9_ReadPostcondition
        /\ C10_ZeroTransferNoOp
        /\ (op = "write" /\ result.kind = "Ok") => C8_WritePostcondition
        /\ (op = "write" /\ tail_index(old) + Free(old) <= capacity) => C3_TruncationOnOverflow
        /\ (op = "write") => Contents([old EXCEPT !.buffer = buffer]) = Contents(old)

=============================================================================
